---------------------------- MODULE Spec2Model ----------------------------
(***************************************************************************)
(* Model of the job-status poll loops of the Firefly demo backend:         *)
(*   check_photoshop_job_status, check_firefly_job_status and              *)
(*   check_lightroom_job_status  (backend/automate_workflow.py)            *)
(*   success_image_callback with fetch_image  (backend/main.py)            *)
(* A caller runs one poll after another against a vendor status endpoint;  *)
(* the vendor's answer to each status GET is chosen nondeterministically.  *)
(***************************************************************************)
EXTENDS Integers, Sequences, FiniteSets, TLC

VARIABLES
  kind,         \* kind[p]: which poll loop caller p runs ("idle": none)
  token,        \* token[p]: the access token p supplies (None: no cookie)
  sent,         \* sent[p]: the headers of the latest status GET of the call
  pc,           \* pc[p]: position of caller p inside its poll ("wait": in requests.get)
  status,       \* status[p]: the local variable `status` of the poll
  resp,         \* resp[p]: the HTTP response of the latest status GET
  outcome,      \* outcome[p]: what the poll gave its caller (return / raise)
  gets,         \* gets[p]: status GETs issued by the current call
  nonterm,      \* nonterm[p]: GETs of the current call after which the loop went on
  sleeps,       \* sleeps[p]: time.sleep calls of the current call
  lastSleep,    \* lastSleep[p]: seconds of the latest time.sleep (0: none yet)
  calls,        \* calls[p]: number of the current call (1, 2, ...)
  prev,         \* prev[p]: outcome of the previous, completed call
  first,        \* first[p]: the first response the job's endpoint gave p
  same,         \* same[p]: every response so far (all calls) equals first[p]
  base,         \* base[p]: the value of fetch_count when the current call began
  fetch_count,  \* main.py's module-level counter, shared by all callback polls
  totalGets,    \* status GETs success_image_callback has issued since the start
  request,      \* the request a forwarding route is serving
  rpc,          \* the route's position: idle, guard, upstream, done
  upReq,        \* the headers of the upstream request the route issued
  upAns,        \* the upstream's answer to it
  reply,        \* the route's answer to its client
  upCount,      \* upstream requests issued for the current request
  wfStep,       \* the statement main() of automate_workflow.py is at
  submits,      \* the jobs main() has submitted, in order
  wfOut,        \* main()'s generate_object_composite_output
  s3Route,      \* the S3 route that is serving a request
  s3pc,         \* its position: idle, list, listed, done
  s3Listing,    \* what list_objects_v2 did
  s3Files,      \* what read_s3_contents returned
  s3Reply,      \* the S3 route's answer to its client
  exCookie,     \* the cookie of the request expand_image_for_all_sizes serves
  expc,         \* its position: idle, loop, done
  exLog,        \* the upstream expand requests it issued, with their answers
  exResponses,  \* its list `responses`
  exReply,      \* its answer to its client
  cropToken     \* crop_image's local `access_token`

pollVars == <<status, resp, outcome, gets, nonterm, sleeps, lastSleep>>

pollAll == <<kind, token, sent, pc, status, resp, outcome, gets, nonterm, sleeps,
             lastSleep, calls, prev, first, same, base, fetch_count, totalGets>>

routeVars == <<request, rpc, upReq, upAns, reply, upCount>>

wfVars == <<wfStep, submits, wfOut>>

s3Vars == <<s3Route, s3pc, s3Listing, s3Files, s3Reply>>

exVars == <<exCookie, expc, exLog, exResponses, exReply>>

cropVars == <<cropToken>>

otherVars == <<routeVars, wfVars, s3Vars, exVars, cropVars>>

vars == <<pollAll, routeVars, wfVars, s3Vars, exVars, cropVars>>

-----------------------------------------------------------------------------
(* Bounds of the model *)

\* Counted status GETs (and sleeps) per call; the counters stay at this value
\* when a poll goes on beyond it.
MaxGets == 5

\* Calls of the poll a caller makes in succession on the same job.
MaxCalls == 2

\* Largest value of fetch_count that is counted; it stays there afterwards.
MaxFetch == 6

\* Status GETs per poll when two polls run at the same time (ConcSpec): the
\* first GET of each and the sleep after it.
ConcGets == 1

Procs == {1, 2}

Min(a, b) == IF a < b THEN a ELSE b

-----------------------------------------------------------------------------
(* Values *)

\* A key that a JSON object does not hold.
Absent == "<absent>"

\* Python's None, as dict.get gives for a missing key.
NoneVal == "None"

VendorStatuses == {"running", "succeeded", "failed", "cancelled"}

ImageUrl == "https://out/image.jpg"

\* A status response body that is a JSON object: top-level "status", the
\* "outputs" list (each element with its own "status") and
\* result.outputs[0].image.url.
Body(s, hasOut, outs, res) ==
  [json |-> TRUE, status |-> s, hasOutputs |-> hasOut, outputs |-> outs,
   result |-> res]

NoBody == Body(Absent, FALSE, <<>>, Absent)

\* A body that is not JSON (an empty body, an HTML page): response.json()
\* raises on it.
NotJsonBody == [NoBody EXCEPT !.json = FALSE]

Out(s) == [status |-> s]

TopLevelBodies ==
  {Body(s, FALSE, <<>>, Absent) : s \in VendorStatuses}
    \cup {Body("succeeded", FALSE, <<>>, ImageUrl)}

NestedBodies == {Body(Absent, TRUE, <<Out(s)>>, Absent) : s \in VendorStatuses}

MalformedBodies ==
  { NoBody,                                   \* {}
    Body(Absent, TRUE, <<>>, Absent),         \* {"outputs": []}
    Body(Absent, TRUE, <<Out(Absent)>>, Absent) }   \* {"outputs": [{}]}

MixedBodies == {Body("running", TRUE, <<Out("succeeded")>>, Absent)}

Bodies == TopLevelBodies \cup NestedBodies \cup MalformedBodies \cup MixedBodies

\* What a request gets: an answer by the class of its status ("2xx"; "3xx",
\* an answer of 300 to 399 that requests hands back, as 304; "4xx5xx") with
\* its body, or none when the request itself fails ("refused": requests
\* raises ConnectionError).
Response(h, b) == [http |-> h, body |-> b]

NoResponse == Response("none", NoBody)

Refused == Response("refused", NoBody)

Responses ==
  {Response(h, b) : h \in {"2xx", "3xx"}, b \in Bodies \cup {NotJsonBody}}
    \cup {Response("4xx5xx", NoBody), Refused}

\* What a poll gives its caller.
Outcome(k, t, b, u) == [kind |-> k, tag |-> t, body |-> b, url |-> u]

Pending == Outcome("pending", "-", NoBody, Absent)
ReturnNone == Outcome("returned", "None", NoBody, Absent)
ReturnBody(b) == Outcome("returned", "body", b, Absent)
ReturnUrl(u) == Outcome("returned", "url", NoBody, u)
Raise(e) == Outcome("raised", e, NoBody, Absent)

Kinds == {"photoshop", "firefly", "lightroom", "callback"}

-----------------------------------------------------------------------------
(* The poll loops' pieces, as the code computes them *)

\* dict.get('status'): the value, or None for a missing key.
DictGetStatus(d) == IF d.status = Absent THEN NoneVal ELSE d.status

\* automate_workflow.py:85-86
PhotoshopExtract(body, old) == DictGetStatus(body)

\* automate_workflow.py:151-152
FireflyExtract(body, old) == DictGetStatus(body)

\* Slip: the status is read at the top level, as the other two loops do.
LightroomExtractTopLevel(body, old) == DictGetStatus(body)

\* automate_workflow.py:206-209: status is assigned only when outputs is a
\* non-empty list.
LightroomExtract(body, old) ==
  LET outputs == IF body.hasOutputs THEN body.outputs ELSE <<>>
  IN  IF Len(outputs) > 0 THEN DictGetStatus(outputs[1]) ELSE old

\* main.py:195-198: the exception the two membership tests raise, "" if none.
CallbackExtractError(body) ==
  IF body.status # Absent THEN ""
  ELSE IF ~body.hasOutputs THEN "KeyError"
  ELSE IF Len(body.outputs) = 0 THEN "IndexError"
  ELSE ""

\* main.py:195-198: top-level status first, else outputs[0].status, else the
\* status is left as it was.
CallbackExtract(body, old) ==
  IF body.status # Absent THEN body.status
  ELSE IF body.outputs[1].status # Absent THEN body.outputs[1].status
  ELSE old

Extract(k, body, old) ==
  CASE k = "photoshop" -> PhotoshopExtract(body, old)
    [] k = "firefly"   -> FireflyExtract(body, old)
    [] k = "lightroom" -> LightroomExtract(body, old)
    [] k = "callback"  -> CallbackExtract(body, old)

ExtractError(k, body) ==
  IF k = "callback" THEN CallbackExtractError(body) ELSE ""

\* The while conditions: automate_workflow.py:81, 147, 202 and main.py:192.
\* Slip: the loop goes on only while the status still is the placeholder.
PhotoshopWhileOnlySubmitted(s) == s = "submitted"

PhotoshopWhile(s) == s \notin {"succeeded", "failed"}

FireflyWhile(s) == s \notin {"succeeded", "failed", "cancelled"}
LightroomWhile(s) == s \notin {"succeeded", "failed"}
CallbackWhile(s) == s # "succeeded" /\ s # "failed"

WhileCond(k, s) ==
  CASE k = "photoshop" -> PhotoshopWhile(s)
    [] k = "firefly"   -> FireflyWhile(s)
    [] k = "lightroom" -> LightroomWhile(s)
    [] k = "callback"  -> CallbackWhile(s)

\* Slip: `status` declared global, so a call starts with the status the
\* previous call left.
InitialStatusStale(p) == IF calls[p] = 0 THEN "" ELSE status[p]

\* The value `status` holds when a call enters its loop:
\* automate_workflow.py:80, 146, 201 and main.py:191.
InitialStatus(p) ==
  CASE kind[p] = "photoshop" -> "submitted"
    [] kind[p] = "firefly"   -> "pending"
    [] kind[p] = "lightroom" -> "pending"
    [] kind[p] = "callback"  -> ""
    [] OTHER                 -> ""

\* Slip: the time.sleep line is missing, every loop starts with its GET.
LoopBodyStartNoSleep(k) == "get"

\* The first statement of the loop body: time.sleep(5) in
\* automate_workflow.py:82, 148, 203; the fetch in main.py:193-194.
LoopBodyStart(k) == IF k = "callback" THEN "get" ELSE "sleep"

\* What follows time.sleep: the GET in automate_workflow.py:83, 149, 204; the
\* end of the loop body, so the while condition, in main.py:202.
AfterSleep(k) == IF k = "callback" THEN "test" ELSE "get"

\* time.sleep(5)
FixedDelay == 5

\* automate_workflow.py:82, 148, 203; main.py:201 (2**fetch_count)
SleepTime(k, fc) == IF k = "callback" THEN 2 ^ fc ELSE FixedDelay

\* What each function does once its loop is over.
\* automate_workflow.py:89-92: prints, returns nothing.
PhotoshopAfter(s, body) == ReturnNone

\* Slip: the return statement of the success branch is missing.
FireflyAfterNoReturn(s, body) == ReturnNone

\* Slip: the failure branch raises the exception type of a failed request.
FireflyAfterRaisesHTTPError(s, body) ==
  IF s = "succeeded"
  THEN IF body.result = Absent THEN Raise("KeyError") ELSE ReturnUrl(body.result)
  ELSE Raise("HTTPError")

\* automate_workflow.py:155-161: the image URL on success, else nothing.
FireflyAfter(s, body) ==
  IF s = "succeeded"
  THEN IF body.result = Absent THEN Raise("KeyError") ELSE ReturnUrl(body.result)
  ELSE ReturnNone

\* automate_workflow.py:212-216: prints, returns nothing.
LightroomAfter(s, body) == ReturnNone

\* main.py:192: the function ends without a return when the loop condition fails.
CallbackAfter(s, body) == ReturnNone

AfterLoop(k, s, body) ==
  CASE k = "photoshop" -> PhotoshopAfter(s, body)
    [] k = "firefly"   -> FireflyAfter(s, body)
    [] k = "lightroom" -> LightroomAfter(s, body)
    [] k = "callback"  -> CallbackAfter(s, body)

\* main.py:203-205: the return inside the loop.
CallbackReturn(body) == ReturnBody(body)

\* What raise_for_status() raises: requests.exceptions.HTTPError.
TransportFailure == Raise("HTTPError")

\* Slip: the raise_for_status() call is missing.
RaiseForStatusNever(r) == FALSE

\* response.raise_for_status() raises HTTPError for a status of 400 to 599
\* only: automate_workflow.py:84, 150, 205; main.py:178.
RaiseForStatus(r) == r.http = "4xx5xx"

\* What ends a status GET without a parsed body: requests.get raises
\* ConnectionError, raise_for_status() raises HTTPError, response.json()
\* raises JSONDecodeError ("" when the body is parsed).
GetError(r) ==
  IF r = Refused THEN "ConnectionError"
  ELSE IF RaiseForStatus(r) THEN "HTTPError"
  ELSE IF ~r.body.json THEN "JSONDecodeError"
  ELSE ""

\* Access tokens: the cookie of a request, or what retrieve_access_token gave.
Tokens == {"token-a", "token-b"}

\* FIREFLY_SERVICES_CLIENT_ID of the environment.
ClientId == "client-id"

Headers(ct, acc, key, auth) ==
  [content_type |-> ct, accept |-> acc, x_api_key |-> key, authorization |-> auth]

NoHeaders == Headers(Absent, Absent, Absent, <<>>)

\* f"Bearer {access_token}"
Bearer(t) == <<"Bearer", t>>

\* Slip: the token is sent without the Bearer scheme.
StatusHeadersNoBearer(k, t) ==
  IF k = "callback"
  THEN Headers("application/json", "application/json", ClientId, <<t>>)
  ELSE Headers(Absent, Absent, ClientId, <<t>>)

\* The headers of a status GET: automate_workflow.py:73-76, 139-142, 194-197
\* and fetch_image, main.py:171-176.
StatusHeaders(k, t) ==
  IF k = "callback"
  THEN Headers("application/json", "application/json", ClientId, Bearer(t))
  ELSE Headers(Absent, Absent, ClientId, Bearer(t))

\* main.py:185-186: request.cookies.get("access_token") is None or empty.
CookieMissing(k, t) == k = "callback" /\ t = NoneVal

\* main.py:187-189: HTTPException(status_code=401, ...)
Unauthorized == Raise("HTTPException 401")

\* Slip: the counter is advanced twice per iteration.
IncrementFetchCountTwice(k, fc) ==
  IF k = "callback" THEN Min(fc + 2, MaxFetch) ELSE fc

\* main.py:191-193: `global fetch_count`, and `fetch_count += 1` at the start
\* of each iteration of success_image_callback's loop; the other loops do not
\* touch it.
IncrementFetchCount(k, fc) ==
  IF k = "callback" THEN Min(fc + 1, MaxFetch) ELSE fc

\* The terminal statuses of a vendor job.
VendorTerminal == {"succeeded", "failed", "cancelled"}

\* The list of each loop's while condition, `while status not in [...]`: the
\* statuses on which that loop stops (automate_workflow.py:81, 147, 202;
\* main.py:192).  Only check_firefly_job_status lists "cancelled".
WhileList(k) ==
  IF k = "firefly" THEN {"succeeded", "failed", "cancelled"}
  ELSE {"succeeded", "failed"}

-----------------------------------------------------------------------------
(* The forwarding routes of main.py, as the code computes them *)

\* The routes whose requests.post/get stands in a try whose handler is
\* `except Exception`, while raise_for_status() and response.json() follow
\* the try (main.py:125-135, 156-167).
TryAroundRequestOnly == {"generate_image", "generate_object_composite"}

\* The routes without any try (main.py:221-223, 235-237).
NoTry == {"check_image_status", "cancel_image_job"}

\* The routes whose request, raise_for_status() and response.json() stand in
\* one try with `except Exception` (main.py:334-345, 362-372, 422-436,
\* 595-606, 628-637, 642-666, 676-685, 690-714, 719-742).
TryExceptException ==
  {"generate_similar_async", "list_custom_models",
   "remove_background_photoshop_async", "generate_audio_from_text",
   "dub_video", "reframe_video", "check_audio_video_status", "auto_tone",
   "get_lightroom_status"}

\* The same, without a raise_for_status() (main.py:276-299, 391-403).
TryNoRaiseForStatus == {"expand_image_async", "generate_video_from_text"}

\* The routes whose try has `except requests.exceptions.RequestException`
\* (main.py:484-494, 507-516, 529-538, 562-573).
TryExceptRequestException ==
  {"get_psd_status", "get_available_voices", "get_available_avatars",
   "generate_avatar_video"}

\* The routes that forward one request upstream with the cookie's token:
\* the twenty above and crop_image (main.py:438-472), which fetches a token
\* itself when there is no cookie.  expand_image_for_all_sizes, which forwards
\* one request per supported size, is modelled further down.
Routes ==
  TryAroundRequestOnly \cup NoTry \cup {"upload_image"}
    \cup TryExceptException \cup TryNoRaiseForStatus
    \cup TryExceptRequestException \cup {"crop_image"}

\* file.filename of an upload.
Filenames == {"a.png"}

\* A request to a route: the access_token cookie (None: no cookie) and, for an
\* upload, the file's name.  The request body is taken as valid.
Request(r, c, f) == [route |-> r, cookie |-> c, filename |-> f]

NoRequest == Request("none", NoneVal, Absent)

Requests ==
  {Request(r, c, IF r = "upload_image" THEN f ELSE Absent) :
     r \in Routes, c \in Tokens \cup {NoneVal}, f \in Filenames}

\* The headers of an upstream request.
UpHeaders(ct, acc, key, auth, mv, rid) ==
  [content_type |-> ct, accept |-> acc, x_api_key |-> key,
   authorization |-> auth, x_model_version |-> mv, x_request_id |-> rid]

NoUpHeaders == UpHeaders(Absent, Absent, Absent, <<>>, Absent, Absent)

\* The headers dict of each route.
RouteHeaders(r, t) ==
  CASE r \in {"generate_image", "generate_object_composite"} ->
         \* main.py:113-119, 147-153
         UpHeaders("application/json", "application/json", ClientId, Bearer(t),
                   "image3", Absent)
    [] r \in {"expand_image_async", "generate_similar_async",
              "remove_background_photoshop_async"} ->
         \* main.py:277-282, 328-333, 416-421
         UpHeaders("application/json", "application/json", ClientId, Bearer(t),
                   Absent, Absent)
    [] r = "upload_image" ->
         \* main.py:248-252
         UpHeaders("file.content_type", Absent, ClientId, Bearer(t), Absent,
                   Absent)
    [] r = "list_custom_models" ->
         \* main.py:356-360
         UpHeaders(Absent, Absent, ClientId, Bearer(t), Absent, "mb123")
    [] r = "generate_video_from_text" ->
         \* main.py:382-387
         UpHeaders("application/json", Absent, ClientId, Bearer(t),
                   "video1_standard", Absent)
    [] r \in {"cancel_image_job", "get_psd_status", "get_available_voices",
              "get_available_avatars", "check_audio_video_status"} ->
         \* main.py:234, 482, 505, 527, 677
         UpHeaders(Absent, Absent, ClientId, Bearer(t), Absent, Absent)
    [] OTHER ->
         \* main.py:216-220, 549-553, 584-588, 617-621, 650-654, 698-702,
         \* 727-731
         UpHeaders("application/json", Absent, ClientId, Bearer(t), Absent,
                   Absent)

\* What the upstream vendor API answers: an HTTP status with a body that is
\* JSON or not, or nothing (requests raises ConnectionError).  304 stands for
\* the statuses from 300 to 399 that requests hands back without following
\* them: neither raise_for_status() nor response.ok fails on them.
UpStatuses == {200, 304, 404, 503}

JsonBodies == {<<"B1">>, <<"B2">>}

NotJson == <<"<not json>">>

Answer(s, b) == [got |-> "response", status |-> s, body |-> b]

ConnectionFailed == [got |-> "error", status |-> 0, body |-> <<>>]

NoAnswer == [got |-> "none", status |-> 0, body |-> <<>>]

Answers ==
  {Answer(s, b) : s \in UpStatuses, b \in JsonBodies \cup {NotJson}}
    \cup {ConnectionFailed}

\* What the route answers its client.
Reply(s, b) == [status |-> s, body |-> b]

NoReply == Reply(0, <<>>)

\* raise HTTPException(status_code=s, detail=d)
HTTPException(s, d) == Reply(s, <<"detail", d>>)

\* main.py:144-146 and the same lines of the other routes.
MissingToken == HTTPException(401, "Access token is missing or expired.")

\* str(e) of that exception: "<status_code>: <detail>".
MissingTokenStr == "401: Access token is missing or expired."

\* except Exception as e: raise HTTPException(status_code=500, detail=str(e));
\* str(e) is kept as the name of the exception caught.
Caught(e) == HTTPException(500, e)

\* An exception no handler of the route catches: the framework answers 500.
InternalServerError == Reply(500, <<"Internal Server Error">>)

\* The detail of the HTTPException(500) a route's except branch raises for
\* the exception e: a fixed text, str(e), or a text followed by str(e).
RouteDetail(r, e) ==
  CASE r = "generate_similar_async" -> <<"Failed to generate similar image">>
    [] r = "list_custom_models" -> <<"Failed to list custom models">>
    [] r = "generate_video_from_text" -> <<"Failed to generate video from text">>
    [] r = "remove_background_photoshop_async" ->
         <<"Failed to remove background from image">>
    [] r = "get_psd_status" -> <<"Failed to get PSD status.">>
    [] r = "get_available_voices" -> <<"Failed to get available voices.">>
    [] r = "get_available_avatars" -> <<"Failed to get available avatars.">>
    [] r = "generate_avatar_video" -> <<"Failed to generate avatar video.">>
    [] r = "generate_audio_from_text" -> <<"Failed to generate audio">>
    [] r = "dub_video" -> <<"Failed to dub video">>
    [] r = "auto_tone" -> <<"Failed to submit auto tone job. ", e>>
    [] r = "get_lightroom_status" -> <<"Failed to get Lightroom status. ", e>>
    [] OTHER -> <<e>>

\* The answer of route r's except branch for the exception e.
CaughtBy(r, e) == Reply(500, <<"detail">> \o RouteDetail(r, e))

\* The routes whose cookie check stands inside their try block
\* (main.py:642-647, 690-695, 719-724).
GuardInTry(r) == r \in {"reframe_video", "auto_tone", "get_lightroom_status"}

\* The answer to a request without the cookie: the 401 raised inside a try is
\* caught by the route's own `except Exception` (main.py:664-666, 710-714,
\* 738-742).
GuardReply(r) ==
  IF GuardInTry(r) THEN CaughtBy(r, MissingTokenStr) ELSE MissingToken

\* crop_image, main.py:438-472.  The value it holds in `access_token`: the cookie's string, or what
\* retrieve_access_token returned.
PyStr(t) == [py |-> "str", access_token |-> t]

\* main.py:89, 103: retrieve_access_token returns token_data, the token
\* endpoint's whole JSON object, whose "access_token" entry is the token.
TokenData(t) == [py |-> "dict", access_token |-> t]

NoToken == [py |-> "none", access_token |-> NoneVal]

\* main.py:77-103
retrieve_access_token(t) == TokenData(t)

\* f"{access_token}": a string as it is, a dict as its repr.
FString(v) ==
  IF v.py = "str"
  THEN <<v.access_token>>
  ELSE <<"{'access_token': '", v.access_token, "', 'token_type': ..., 'expires_in': ...}">>

\* main.py:448-453
CropHeaders(v) ==
  UpHeaders("application/json", "application/json", ClientId,
            <<"Bearer">> \o FString(v), Absent, Absent)

\* main.py:456-472: there is no raise_for_status(), so any JSON answer is
\* returned; a failed request is answered 500, and so is a body that is not
\* JSON (by the route's handler where the library's JSON error is a
\* RequestException, by the framework where it is not).
CropReplies(a) ==
  IF a.got = "error" THEN {HTTPException(500, "Failed to crop image.")}
  ELSE IF a.body = NotJson
  THEN {HTTPException(500, "Failed to crop image."), InternalServerError}
  ELSE {Reply(200, a.body)}

\* response.ok
Ok(a) == a.status < 400

\* What requests raises on an answer: the call itself, raise_for_status(),
\* response.json().
UpstreamError(a) ==
  IF a.got = "error" THEN "ConnectionError"
  ELSE IF ~Ok(a) THEN "HTTPError"
  ELSE IF a.body = NotJson THEN "JSONDecodeError"
  ELSE ""

\* main.py:263: {"filename": file.filename, "firefly_response": response.json()}
UploadReturn(f, b) == <<"filename", f, "firefly_response">> \o b

\* Slip: every route wraps the upstream body as upload_image does.
RouteReturnAlwaysWrapped(q, b) == Reply(200, UploadReturn(q.filename, b))

\* The value a route returns on success (main.py:167, 223, 263, 663, 709, 737).
RouteReturn(q, b) ==
  IF q.route = "upload_image"
  THEN Reply(200, UploadReturn(q.filename, b))
  ELSE Reply(200, b)

\* The answers a route can give once the upstream has answered a.  There are
\* two only where the answer depends on the requests library at hand: its
\* JSON error is a RequestException in some versions and not in others.
RouteReplies(q, a) ==
  LET r == q.route
      e == UpstreamError(a)
  IN
  CASE r \in TryAroundRequestOnly ->
         IF a.got = "error" THEN {Caught("ConnectionError")}
         ELSE IF e # "" THEN {InternalServerError}
         ELSE {RouteReturn(q, a.body)}
    [] r \in NoTry ->
         IF e # "" THEN {InternalServerError}
         ELSE {RouteReturn(q, a.body)}
    [] r = "upload_image" ->                 \* main.py:255-266
         IF a.got = "error" THEN {Caught("ConnectionError")}
         ELSE IF ~Ok(a) THEN {Caught("HTTPException")}
         ELSE IF a.body = NotJson THEN {Caught("JSONDecodeError")}
         ELSE {RouteReturn(q, a.body)}
    [] r \in TryExceptException ->
         IF e # "" THEN {CaughtBy(r, e)}
         ELSE {RouteReturn(q, a.body)}
    [] r \in TryNoRaiseForStatus ->
         IF a.got = "error" THEN {CaughtBy(r, "ConnectionError")}
         ELSE IF a.body = NotJson THEN {CaughtBy(r, "JSONDecodeError")}
         ELSE {RouteReturn(q, a.body)}
    [] r \in TryExceptRequestException ->
         IF e = "JSONDecodeError"
         THEN {CaughtBy(r, e), InternalServerError}
         ELSE IF e # "" THEN {CaughtBy(r, e)}
         ELSE {RouteReturn(q, a.body)}
    [] r = "crop_image" -> CropReplies(a)

-----------------------------------------------------------------------------
(* The automation workflow of automate_workflow.py, as the code computes it *)

SIGNED_PRODUCT_URL == "SIGNED_PRODUCT_URL"
SIGNED_GET_POST_URL == "SIGNED_GET_POST_URL"

SubmitSteps == {"remove_background", "generate_object_composite", "auto_tone"}

PollSteps ==
  {"check_photoshop_job_status", "check_firefly_job_status",
   "check_lightroom_job_status"}

\* main(): the poll that follows each submission (automate_workflow.py:15-17,
\* 20-22, 25-27).
PollStepOf(s) ==
  CASE s = "remove_background" -> "check_photoshop_job_status"
    [] s = "generate_object_composite" -> "check_firefly_job_status"
    [] s = "auto_tone" -> "check_lightroom_job_status"

KindOf(s) ==
  CASE s = "check_photoshop_job_status" -> "photoshop"
    [] s = "check_firefly_job_status" -> "firefly"
    [] s = "check_lightroom_job_status" -> "lightroom"

\* Slip: the object-composite step is left out.
StepAfterSkipsComposite(s) ==
  CASE s = "check_photoshop_job_status" -> "auto_tone"
    [] s = "check_firefly_job_status" -> "auto_tone"
    [] s = "check_lightroom_job_status" -> "finished"

\* main(): the statement after each poll.
StepAfter(s) ==
  CASE s = "check_photoshop_job_status" -> "generate_object_composite"
    [] s = "check_firefly_job_status" -> "auto_tone"
    [] s = "check_lightroom_job_status" -> "finished"

\* What the POST of a submission gets: the class of the answer's status, as
\* for a status GET, and its body: JSON that holds the job's id
\* (_links.self.href or jobId: "job"), JSON that does not ("nojob"), or no
\* JSON ("notjson").
SubmitAnswers ==
  {[http |-> h, body |-> b] : h \in {"2xx", "3xx"},
                              b \in {"job", "nojob", "notjson"}}
    \cup {[http |-> "4xx5xx", body |-> "none"],
          [http |-> "refused", body |-> "none"]}

\* The exception that ends main() at a submission ("" when the job's poll is
\* called): requests.post raises ConnectionError; raise_for_status() raises
\* HTTPError (automate_workflow.py:68, 130, 186); response.json() raises
\* JSONDecodeError; extract_job_id (automate_workflow.py:219) or
\* ['jobId'] (automate_workflow.py:21) raises KeyError.
SubmitError(a) ==
  IF a.http = "refused" THEN "ConnectionError"
  ELSE IF RaiseForStatus(a) THEN "HTTPError"
  ELSE IF a.body = "notjson" THEN "JSONDecodeError"
  ELSE IF a.body = "nojob" THEN "KeyError"
  ELSE ""

\* A job submission: the API, the href of its input image and how the POST
\* was answered.
Submission(api, href, a) ==
  [api |-> api, href |-> href, http |-> a.http, body |-> a.body]

\* The input href of each submission: automate_workflow.py:60-63, 109-113 and
\* 173-176 (auto_tone's signed_input_url parameter).
SubmitHref(s, out) ==
  CASE s = "remove_background" -> SIGNED_PRODUCT_URL
    [] s = "generate_object_composite" -> SIGNED_GET_POST_URL
    [] s = "auto_tone" -> out

\* What a poll's return value is as a Python value: the URL, or None.
ReturnValue(o) == IF o.tag = "url" THEN o.url ELSE NoneVal

-----------------------------------------------------------------------------
(* The S3 listing routes of main.py and aws.py, as the code computes them *)

\* Longest object listing that is modelled.
MaxKeys == 3

S3Routes == {"get_s3_thumbnails", "get_s3_video_names"}

\* An object key: an optional "thumbnails/" prefix, a name and an extension.
Key(pre, name, ext) == [prefix |-> pre, name |-> name, ext |-> ext]

Keys ==
  {Key("thumbnails/", "a", ".png"), Key("", "b", ".mp4"), Key("", "c", ".txt")}

KeyLists == UNION {[1..n -> Keys] : n \in 1..MaxKeys}

\* What s3_client.list_objects_v2 does: it raises, or it answers without
\* "Contents" (nothing under the prefix), or with the objects' keys.
Listing(r, has, ks) == [raises |-> r, hasContents |-> has, contents |-> ks]

NoListing == Listing(FALSE, FALSE, <<>>)

Listings ==
  {Listing(TRUE, FALSE, <<>>), Listing(FALSE, FALSE, <<>>)}
    \cup {Listing(FALSE, TRUE, ks) : ks \in KeyLists}

\* A Python value that is None or a list.
PyNone == [none |-> TRUE, items |-> <<>>]
PyList(xs) == [none |-> FALSE, items |-> xs]

\* aws.py:97-110: the keys, or None when anything raised (list_objects_v2
\* itself, or response["Contents"] of an answer without that key).
read_s3_contents(l) ==
  IF l.raises \/ ~l.hasContents THEN PyNone ELSE PyList(l.contents)

\* `if files:`
Truthy(v) == ~v.none /\ Len(v.items) > 0

\* file.endswith(".mp4")
EndsWithMp4(k) == k.ext = ".mp4"

\* aws.py:41: (url, key.replace("thumbnails/", ""))
Presigned(k) == [url_of |-> k, name |-> [k EXCEPT !.prefix = ""]]

\* What an S3 route answers its client.
S3Reply(s, b, d) == [status |-> s, body |-> b, detail |-> d]

NoS3Reply == S3Reply(0, <<>>, "")

\* main.py:758-760, 809-811
S3Failed == S3Reply(500, <<>>, "Failed to read S3 contents.")

\* main.py:747-757: presignOk tells whether generate_presigned_url, called for
\* each file, raised ClientError.
get_s3_thumbnails(files, presignOk) ==
  IF Truthy(files)
  THEN IF presignOk
       THEN S3Reply(200, [i \in 1..Len(files.items) |-> Presigned(files.items[i])], "")
       ELSE S3Failed
  ELSE S3Reply(200, <<>>, "")

\* main.py:801-808
get_s3_video_names(files) ==
  IF Truthy(files)
  THEN S3Reply(200, SelectSeq(files.items, EndsWithMp4), "")
  ELSE S3Reply(200, <<>>, "")

-----------------------------------------------------------------------------
(* expand_image_for_all_sizes of main.py, as the code computes it *)

\* main.py:63-74
supported_sizes ==
  << <<2688, 1536>>, <<1344, 756>>, <<896, 1152>>, <<1344, 768>>,
     <<2688, 1512>>, <<2304, 1792>>, <<1152, 896>>, <<2048, 2048>>,
     <<1792, 2304>>, <<1024, 1024>> >>

\* What the upstream expand API answers to one submission.
ExpandAnswers ==
  {Answer(200, <<"B1">>), Answer(404, <<"B2">>), Answer(200, NotJson),
   ConnectionFailed}

\* One upstream expand request: the size it asks for, its headers and the
\* answer it got.
Expand(size, h, a) == [size |-> size, headers |-> h, answer |-> a]

\* main.py:290-299: requests.post or response.json() raises and the except
\* branch raises HTTPException(500); there is no raise_for_status().
ExpandRaises(a) == a.got = "error" \/ a.body = NotJson

\* Slip: the newest response is put in front.
PrependResponse(rs, r) == <<r>> \o rs

\* main.py:313-315: responses.append(...)
AppendResponse(rs, r) == Append(rs, r)

\* What the route answers: a list of upstream bodies, or an error.
ExReply(s, b, d) == [status |-> s, body |-> b, detail |-> d]

NoExReply == ExReply(0, <<>>, "")

-----------------------------------------------------------------------------
(* State machine *)

Active == {p \in Procs : kind[p] # "idle"}

\* No poll has been called yet.
InitPolls ==
  /\ token \in {f \in [Procs -> Tokens \cup {NoneVal}] :
                  \A p \in Procs :
                    /\ kind[p] = "idle" => f[p] = NoneVal
                    /\ kind[p] \in Kinds \ {"callback"} => f[p] \in Tokens}
  /\ sent = [p \in Procs |-> NoHeaders]
  /\ pc = [p \in Procs |-> IF kind[p] = "idle" THEN "idle" ELSE "ready"]
  /\ status = [p \in Procs |-> Absent]
  /\ resp = [p \in Procs |-> NoResponse]
  /\ outcome = [p \in Procs |-> Pending]
  /\ gets = [p \in Procs |-> 0]
  /\ nonterm = [p \in Procs |-> 0]
  /\ sleeps = [p \in Procs |-> 0]
  /\ lastSleep = [p \in Procs |-> 0]
  /\ calls = [p \in Procs |-> 0]
  /\ prev = [p \in Procs |-> Pending]
  /\ first = [p \in Procs |-> NoResponse]
  /\ same = [p \in Procs |-> TRUE]
  /\ base = [p \in Procs |-> 0]
  /\ fetch_count = 0
  /\ totalGets = 0

\* No route is serving a request.
RouteIdle ==
  /\ cropToken = NoToken
  /\ request = NoRequest
  /\ rpc = "idle"
  /\ upReq = NoUpHeaders
  /\ upAns = NoAnswer
  /\ reply = NoReply
  /\ upCount = 0

\* The workflow script is not running.
WfOff ==
  /\ wfStep = "off"
  /\ submits = <<>>
  /\ wfOut = Absent

\* No S3 route is serving a request.
S3Idle ==
  /\ s3Route = "none"
  /\ s3pc = "idle"
  /\ s3Listing = NoListing
  /\ s3Files = PyNone
  /\ s3Reply = NoS3Reply

\* expand_image_for_all_sizes is not serving a request.
ExIdle ==
  /\ exCookie = NoneVal
  /\ expc = "idle"
  /\ exLog = <<>>
  /\ exResponses = <<>>
  /\ exReply = NoExReply

OthersIdle == RouteIdle /\ WfOff /\ S3Idle /\ ExIdle

\* One caller, running one of the four polls.
Init ==
  /\ kind \in {f \in [Procs -> Kinds \cup {"idle"}] :
                 f[1] # "idle" /\ \A p \in Procs \ {1} : f[p] = "idle"}
  /\ InitPolls
  /\ OthersIdle

\* The while condition: enter the loop body or leave the loop.
Test(p) ==
  /\ pc[p] = "test"
  /\ pc' = [pc EXCEPT ![p] =
              IF WhileCond(kind[p], status[p])
              THEN LoopBodyStart(kind[p])
              ELSE "after"]
  /\ UNCHANGED otherVars
  /\ UNCHANGED <<kind, token, sent, pollVars, calls, prev, first, same, base,
                 fetch_count, totalGets>>

\* time.sleep: before the GET in automate_workflow.py, after it in main.py.
Sleep(p) ==
  /\ pc[p] = "sleep"
  /\ sleeps' = [sleeps EXCEPT ![p] = Min(@ + 1, MaxGets)]
  /\ lastSleep' = [lastSleep EXCEPT ![p] = SleepTime(kind[p], fetch_count)]
  /\ pc' = [pc EXCEPT ![p] = AfterSleep(kind[p])]
  /\ UNCHANGED otherVars
  /\ UNCHANGED <<kind, token, sent, status, resp, outcome, gets, nonterm, calls,
                 prev, first, same, base, fetch_count, totalGets>>

\* The status GET is sent: requests.get blocks until the answer arrives, and
\* other threads run meanwhile.  In success_image_callback the iteration has
\* just done `fetch_count += 1` (main.py:193), so the new count is visible to
\* every other request while this one waits.
Get(p) ==
  /\ pc[p] = "get"
  /\ fetch_count' = IncrementFetchCount(kind[p], fetch_count)
  /\ totalGets' = IF kind[p] = "callback"
                   THEN Min(totalGets + 1, MaxFetch) ELSE totalGets
  /\ sent' = [sent EXCEPT ![p] = StatusHeaders(kind[p], token[p])]
  /\ gets' = [gets EXCEPT ![p] = Min(@ + 1, MaxGets)]
  /\ pc' = [pc EXCEPT ![p] = "wait"]
  /\ UNCHANGED otherVars
  /\ UNCHANGED <<kind, token, status, resp, outcome, nonterm, sleeps, lastSleep,
                 calls, prev, first, same, base>>

\* The answer to the status GET arrives, with what follows it in the same
\* iteration: raise_for_status, response.json(), the status extraction and,
\* in success_image_callback, the if/else after it.
GetAnswered(p) ==
  /\ pc[p] = "wait"
  /\ \E r \in Responses :
       LET k == kind[p]
           s == Extract(k, r.body, status[p])
       IN
       /\ resp' = [resp EXCEPT ![p] = r]
       /\ first' = [first EXCEPT ![p] = IF @ = NoResponse THEN r ELSE @]
       /\ same' = [same EXCEPT ![p] = @ /\ (first[p] = NoResponse \/ first[p] = r)]
       /\ IF GetError(r) # ""
          THEN /\ outcome' = [outcome EXCEPT ![p] = Raise(GetError(r))]
               /\ pc' = [pc EXCEPT ![p] = "done"]
               /\ UNCHANGED <<status, nonterm>>
          ELSE IF ExtractError(k, r.body) # ""
          THEN /\ outcome' = [outcome EXCEPT ![p] = Raise(ExtractError(k, r.body))]
               /\ pc' = [pc EXCEPT ![p] = "done"]
               /\ UNCHANGED <<status, nonterm>>
          ELSE /\ status' = [status EXCEPT ![p] = s]
               /\ nonterm' = [nonterm EXCEPT ![p] =
                                IF s \in WhileList(k) THEN @ ELSE Min(@ + 1, MaxGets)]
               /\ IF k = "callback"
                  THEN IF CallbackWhile(s)
                       THEN /\ pc' = [pc EXCEPT ![p] = "sleep"]
                            /\ UNCHANGED outcome
                       ELSE /\ pc' = [pc EXCEPT ![p] = "done"]
                            /\ outcome' = [outcome EXCEPT ![p] = CallbackReturn(r.body)]
                  ELSE /\ pc' = [pc EXCEPT ![p] = "test"]
                       /\ UNCHANGED outcome
  /\ UNCHANGED otherVars
  /\ UNCHANGED <<kind, token, sent, gets, sleeps, lastSleep, calls, prev, base,
                 fetch_count, totalGets>>

\* The code after the loop: the function returns (or raises).
After(p) ==
  /\ pc[p] = "after"
  /\ outcome' = [outcome EXCEPT ![p] = AfterLoop(kind[p], status[p], resp[p].body)]
  /\ pc' = [pc EXCEPT ![p] = "done"]
  /\ UNCHANGED otherVars
  /\ UNCHANGED <<kind, token, sent, status, resp, gets, nonterm, sleeps,
                 lastSleep, calls, prev, first, same, base, fetch_count, totalGets>>

\* The caller calls the poll on its job, for the first time or again: the
\* function's locals are fresh and `status` is set to the placeholder.
\* success_image_callback first looks for the access_token cookie and answers
\* 401 without it (main.py:185-189).
Call(p) ==
  /\ pc[p] \in {"ready", "done"}
  /\ calls[p] < MaxCalls
  /\ calls' = [calls EXCEPT ![p] = @ + 1]
  /\ prev' = [prev EXCEPT ![p] = outcome[p]]
  /\ sent' = [sent EXCEPT ![p] = NoHeaders]
  /\ resp' = [resp EXCEPT ![p] = NoResponse]
  /\ IF CookieMissing(kind[p], token[p])
     THEN /\ outcome' = [outcome EXCEPT ![p] = Unauthorized]
          /\ status' = [status EXCEPT ![p] = Absent]
          /\ pc' = [pc EXCEPT ![p] = "done"]
     ELSE /\ outcome' = [outcome EXCEPT ![p] = Pending]
          /\ status' = [status EXCEPT ![p] = InitialStatus(p)]
          /\ pc' = [pc EXCEPT ![p] = "test"]
  /\ gets' = [gets EXCEPT ![p] = 0]
  /\ nonterm' = [nonterm EXCEPT ![p] = 0]
  /\ sleeps' = [sleeps EXCEPT ![p] = 0]
  /\ lastSleep' = [lastSleep EXCEPT ![p] = 0]
  /\ base' = [base EXCEPT ![p] = fetch_count]
  /\ UNCHANGED otherVars
  /\ UNCHANGED <<kind, token, first, same, fetch_count, totalGets>>

Step(p) == Test(p) \/ Sleep(p) \/ Get(p) \/ GetAnswered(p) \/ After(p)

Next == \E p \in Procs : Call(p) \/ Step(p)

Spec == Init /\ [][Next]_vars

\* A running poll is never suspended for ever: each of its steps is taken.
LiveSpec == Init /\ [][Next]_vars /\ \A p \in Procs : WF_vars(Step(p))

\* Two requests served at the same time, as FastAPI's thread pool runs them:
\* caller 2 polls in success_image_callback while caller 1 runs any of the
\* four polls; each makes one call, with its cookie.  (fetch_count += 1 is
\* taken as one step.)
ConcInit ==
  /\ kind \in {f \in [Procs -> Kinds] : f[2] = "callback"}
  /\ InitPolls
  /\ token = [p \in Procs |-> "token-a"]
  /\ OthersIdle

ConcBound == \A p \in Procs : calls[p] <= 1 /\ gets[p] <= ConcGets

ConcNext == Next /\ ConcBound'

ConcSpec == ConcInit /\ [][ConcNext]_vars

\* One request to a forwarding route arrives.  The model keeps the record of
\* the request being served only: that of an earlier request to
\* expand_image_for_all_sizes is dropped.
Receive ==
  /\ rpc \in {"idle", "done"}
  /\ expc \in {"idle", "done"}
  /\ \E q \in Requests : request' = q
  /\ rpc' = "guard"
  /\ cropToken' = NoToken
  /\ upReq' = NoUpHeaders
  /\ upAns' = NoAnswer
  /\ reply' = NoReply
  /\ upCount' = 0
  /\ exCookie' = NoneVal
  /\ expc' = "idle"
  /\ exLog' = <<>>
  /\ exResponses' = <<>>
  /\ exReply' = NoExReply
  /\ UNCHANGED <<pollAll, wfVars, s3Vars>>

\* The cookie check and, with a cookie, the upstream request.  Without a
\* cookie crop_image goes on to retrieve a token (main.py:440-442) where the
\* other routes raise their 401.
Forward ==
  /\ rpc = "guard"
  /\ IF request.cookie = NoneVal
     THEN IF request.route = "crop_image"
          THEN /\ rpc' = "crop_token"
               /\ UNCHANGED <<reply, upReq, upCount, cropToken>>
          ELSE /\ reply' = GuardReply(request.route)
               /\ rpc' = "done"
               /\ UNCHANGED <<upReq, upCount, cropToken>>
     ELSE IF request.route = "crop_image"
          THEN /\ cropToken' = PyStr(request.cookie)
               /\ upReq' = CropHeaders(PyStr(request.cookie))
               /\ upCount' = upCount + 1
               /\ rpc' = "upstream"
               /\ UNCHANGED reply
          ELSE /\ upReq' = RouteHeaders(request.route, request.cookie)
               /\ upCount' = upCount + 1
               /\ rpc' = "upstream"
               /\ UNCHANGED <<reply, cropToken>>
  /\ UNCHANGED <<request, upAns, pollAll, wfVars, s3Vars, exVars>>

\* access_token = retrieve_access_token(): the token endpoint issues a token,
\* or its raise_for_status() raises, which nothing in crop_image catches.
CropRetrieveToken ==
  /\ rpc = "crop_token"
  /\ \/ /\ \E t \in Tokens : cropToken' = retrieve_access_token(t)
        /\ rpc' = "crop_send"
        /\ UNCHANGED reply
     \/ /\ reply' = InternalServerError
        /\ rpc' = "done"
        /\ UNCHANGED cropToken
  /\ UNCHANGED <<request, upReq, upAns, upCount, pollAll, wfVars, s3Vars, exVars>>

\* The productCrop request is sent with the token retrieved.
CropForward ==
  /\ rpc = "crop_send"
  /\ upReq' = CropHeaders(cropToken)
  /\ upCount' = upCount + 1
  /\ rpc' = "upstream"
  /\ UNCHANGED <<request, cropToken, upAns, reply, pollAll, wfVars, s3Vars, exVars>>

\* The upstream answers and the route answers its client.
Relay ==
  /\ rpc = "upstream"
  /\ \E a \in Answers :
       /\ upAns' = a
       /\ \E r \in RouteReplies(request, a) : reply' = r
  /\ rpc' = "done"
  /\ UNCHANGED <<request, upReq, upCount, cropToken, pollAll, wfVars, s3Vars, exVars>>

RouteInit ==
  /\ kind = [p \in Procs |-> "idle"]
  /\ InitPolls
  /\ OthersIdle

\* main() starts: automate_workflow.py:11.
WfInit ==
  /\ kind = [p \in Procs |-> "idle"]
  /\ InitPolls
  /\ RouteIdle
  /\ S3Idle
  /\ ExIdle
  /\ wfStep = "retrieve_access_token"
  /\ submits = <<>>
  /\ wfOut = Absent

\* automate_workflow.py:12, 29-45: the token request succeeds or raises.
RetrieveAccessToken ==
  /\ wfStep = "retrieve_access_token"
  /\ \/ /\ \E t \in Tokens : token' = [token EXCEPT ![1] = t]
        /\ wfStep' = "remove_background"
     \/ /\ wfStep' = "aborted"
        /\ UNCHANGED token
  /\ UNCHANGED <<kind, sent, pc, pollVars, calls, prev, first, same, base,
                 fetch_count, totalGets, submits, wfOut, routeVars, s3Vars, exVars, cropVars>>

\* remove_background, generate_object_composite, auto_tone: the job is
\* submitted and main() reads the job's id from the answer; an exception of
\* the request, of raise_for_status() or of the reading ends main(), otherwise
\* the job's poll is about to be called.
Submit ==
  /\ wfStep \in SubmitSteps
  /\ \E a \in SubmitAnswers :
       /\ submits' = Append(submits,
                            Submission(wfStep, SubmitHref(wfStep, wfOut), a))
       /\ IF SubmitError(a) # ""
          THEN /\ wfStep' = "aborted"
               /\ UNCHANGED <<kind, sent, pc, pollVars, calls, prev, first, same, base>>
          ELSE /\ wfStep' = PollStepOf(wfStep)
               /\ kind' = [kind EXCEPT ![1] = KindOf(PollStepOf(wfStep))]
               /\ pc' = [pc EXCEPT ![1] = "ready"]
               /\ sent' = [sent EXCEPT ![1] = NoHeaders]
               /\ status' = [status EXCEPT ![1] = Absent]
               /\ resp' = [resp EXCEPT ![1] = NoResponse]
               /\ outcome' = [outcome EXCEPT ![1] = Pending]
               /\ gets' = [gets EXCEPT ![1] = 0]
               /\ nonterm' = [nonterm EXCEPT ![1] = 0]
               /\ sleeps' = [sleeps EXCEPT ![1] = 0]
               /\ lastSleep' = [lastSleep EXCEPT ![1] = 0]
               /\ calls' = [calls EXCEPT ![1] = 0]
               /\ prev' = [prev EXCEPT ![1] = Pending]
               /\ first' = [first EXCEPT ![1] = NoResponse]
               /\ same' = [same EXCEPT ![1] = TRUE]
               /\ base' = [base EXCEPT ![1] = 0]
  /\ UNCHANGED <<token, fetch_count, totalGets, wfOut, routeVars, s3Vars, exVars, cropVars>>

\* main() calls the poll of the job once, and the poll runs.
Poll ==
  /\ wfStep \in PollSteps
  /\ \/ calls[1] = 0 /\ Call(1)
     \/ Step(1)

\* The poll is over: its exception ends main(), its return value is kept
\* (automate_workflow.py:22) and main() goes on.
PollReturn ==
  /\ wfStep \in PollSteps
  /\ pc[1] = "done"
  /\ IF outcome[1].kind = "raised"
     THEN wfStep' = "aborted" /\ UNCHANGED wfOut
     ELSE /\ wfStep' = StepAfter(wfStep)
          /\ wfOut' = IF wfStep = "check_firefly_job_status"
                      THEN ReturnValue(outcome[1]) ELSE wfOut
  /\ pc' = [pc EXCEPT ![1] = "idle"]
  /\ UNCHANGED <<kind, token, sent, pollVars, calls, prev, first, same, base,
                 fetch_count, totalGets, submits, routeVars, s3Vars, exVars, cropVars>>

WfNext == RetrieveAccessToken \/ Submit \/ Poll \/ PollReturn

WfSpec == WfInit /\ [][WfNext]_vars

\* A request to one of the two S3 routes arrives.
S3Receive ==
  /\ s3pc \in {"idle", "done"}
  /\ \E r \in S3Routes : s3Route' = r
  /\ s3pc' = "list"
  /\ s3Listing' = NoListing
  /\ s3Files' = PyNone
  /\ s3Reply' = NoS3Reply
  /\ UNCHANGED <<pollAll, routeVars, wfVars, exVars, cropVars>>

\* files = read_s3_contents(bucket_name, prefix)
S3List ==
  /\ s3pc = "list"
  /\ \E l \in Listings :
       /\ s3Listing' = l
       /\ s3Files' = read_s3_contents(l)
  /\ s3pc' = "listed"
  /\ UNCHANGED <<s3Route, s3Reply, pollAll, routeVars, wfVars, exVars, cropVars>>

\* The rest of the route: the answer to the client.
S3Answer ==
  /\ s3pc = "listed"
  /\ IF s3Route = "get_s3_thumbnails"
     THEN \E presignOk \in BOOLEAN :
            s3Reply' = get_s3_thumbnails(s3Files, presignOk)
     ELSE s3Reply' = get_s3_video_names(s3Files)
  /\ s3pc' = "done"
  /\ UNCHANGED <<s3Route, s3Listing, s3Files, pollAll, routeVars, wfVars, exVars, cropVars>>

S3Init ==
  /\ kind = [p \in Procs |-> "idle"]
  /\ InitPolls
  /\ OthersIdle

S3Next == S3Receive \/ S3List \/ S3Answer

S3Spec == S3Init /\ [][S3Next]_vars

\* A request arrives; without the cookie it is answered 401 (main.py:304-308).
\* The record of an earlier request to another forwarding route is dropped.
ExReceive ==
  /\ expc \in {"idle", "done"}
  /\ rpc \in {"idle", "done"}
  /\ request' = NoRequest
  /\ rpc' = "idle"
  /\ cropToken' = NoToken
  /\ upReq' = NoUpHeaders
  /\ upAns' = NoAnswer
  /\ reply' = NoReply
  /\ upCount' = 0
  /\ \E c \in Tokens \cup {NoneVal} :
       /\ exCookie' = c
       /\ IF c = NoneVal
          THEN /\ expc' = "done"
               /\ exReply' = ExReply(401, <<>>, "Access token is missing or expired.")
          ELSE /\ expc' = "loop"
               /\ exReply' = NoExReply
  /\ exLog' = <<>>
  /\ exResponses' = <<>>
  /\ UNCHANGED <<pollAll, wfVars, s3Vars>>

\* One iteration of `for size in supported_sizes`: expand_image_async posts
\* the size upstream (main.py:290-294) and waits for the answer.
ExSubmit ==
  /\ expc = "loop"
  /\ Len(exLog) < Len(supported_sizes)
  /\ exLog' = Append(exLog,
                     Expand(supported_sizes[Len(exLog) + 1],
                            RouteHeaders("expand_image_async", exCookie),
                            NoAnswer))
  /\ expc' = "wait"
  /\ UNCHANGED <<exCookie, exResponses, exReply, pollAll, routeVars, wfVars, s3Vars, cropVars>>

\* The upstream answers: expand_image_async returns the answer's JSON, which
\* is appended (main.py:295-296, 313-315), or raises (main.py:297-299).
ExAnswered ==
  /\ expc = "wait"
  /\ \E a \in ExpandAnswers :
       /\ exLog' = [exLog EXCEPT ![Len(exLog)].answer = a]
       /\ IF ExpandRaises(a)
          THEN /\ exReply' = ExReply(500, <<>>, UpstreamError(a))
               /\ expc' = "done"
               /\ UNCHANGED exResponses
          ELSE /\ exResponses' = AppendResponse(exResponses, a.body)
               /\ expc' = "loop"
               /\ UNCHANGED exReply
  /\ UNCHANGED <<exCookie, pollAll, routeVars, wfVars, s3Vars, cropVars>>

\* return responses
ExReturn ==
  /\ expc = "loop"
  /\ Len(exLog) = Len(supported_sizes)
  /\ exReply' = ExReply(200, exResponses, "")
  /\ expc' = "done"
  /\ UNCHANGED <<exCookie, exLog, exResponses, pollAll, routeVars, wfVars, s3Vars, cropVars>>

ExInit ==
  /\ kind = [p \in Procs |-> "idle"]
  /\ InitPolls
  /\ OthersIdle

ExNext == ExReceive \/ ExSubmit \/ ExAnswered \/ ExReturn

ExSpec == ExInit /\ [][ExNext]_vars

\* The server's forwarding routes, serving one request at a time.
RouteNext ==
  \/ Receive \/ Forward \/ CropRetrieveToken \/ CropForward \/ Relay
  \/ ExReceive \/ ExSubmit \/ ExAnswered \/ ExReturn

RouteSpec == RouteInit /\ [][RouteNext]_vars

TypeOK ==
  /\ kind \in [Procs -> Kinds \cup {"idle"}]
  /\ pc \in [Procs -> {"idle", "ready", "test", "sleep", "get", "wait", "after",
                       "done"}]
  /\ resp \in [Procs -> Responses \cup {NoResponse}]
  /\ gets \in [Procs -> 0..MaxGets]
  /\ fetch_count \in 0..MaxFetch

-----------------------------------------------------------------------------
(* Claims *)

Returned(p) == pc[p] = "done" /\ outcome[p].kind = "returned"
Raised(p) == pc[p] = "done" /\ outcome[p].kind = "raised"

\* An answer whose body the poll reads: no HTTP error status and a JSON body.
ParsedAnswer(r) == r.http \in {"2xx", "3xx"} /\ r.body.json

\* The exception a status GET is to end the poll with: HTTPError for a status
\* of 400 or above, ConnectionError for a request that failed,
\* JSONDecodeError for a body that is not JSON; "" for an answer that is read.
FailureOf(r) ==
  CASE r.http = "4xx5xx" -> "HTTPError"
    [] r.http = "refused" -> "ConnectionError"
    [] r.http \in {"2xx", "3xx"} /\ ~r.body.json -> "JSONDecodeError"
    [] OTHER -> ""

\* The latest status GET of p's current call was answered and its body read.
GotBody(p) == gets[p] > 0 /\ ParsedAnswer(resp[p])

\* C1: once a poll has observed a terminal status (succeeded, failed or
\* cancelled), its next steps only leave the loop and end the call: it issues
\* no further status GET and no further sleep, and the response it ended on
\* stays its last one.
C1_StopsAtFirstTerminal ==
  [][\A p \in Procs :
       (status[p] \in VendorTerminal /\ calls'[p] = calls[p])
         => /\ pc'[p] \in {"test", "after", "done"}
            /\ pc'[p] # pc[p] => pc'[p] \in {"after", "done"}
            /\ resp'[p] = resp[p]
            /\ gets'[p] = gets[p]
            /\ sleeps'[p] = sleeps[p]]_vars

\* C1, the part that holds: the same, for the statuses of the loop's own while
\* list, which lacks cancelled in check_photoshop_job_status,
\* check_lightroom_job_status and success_image_callback.
C1_StopsOnWhileList ==
  [][\A p \in Procs :
       (status[p] \in WhileList(kind[p]) /\ calls'[p] = calls[p])
         => /\ pc'[p] \in {"test", "after", "done"}
            /\ pc'[p] # pc[p] => pc'[p] \in {"after", "done"}
            /\ resp'[p] = resp[p]
            /\ gets'[p] = gets[p]
            /\ sleeps'[p] = sleeps[p]]_vars

\* A poll that went through several iterations and returned on a terminal status.
C1_Witness ==
  \E p \in Procs :
    /\ Returned(p)
    /\ gets[p] >= 2
    /\ nonterm[p] >= 1
    /\ status[p] \in WhileList(kind[p])

\* C2: a poll leaves its loop or returns only on a status of its while list
\* (a terminal status), and then it has issued exactly one status GET per
\* response that was not of that list plus one: n non-terminal responses and
\* one terminal response make n + 1 GETs.
C2_ExactlyNPlusOneGets ==
  \A p \in Procs :
    (pc[p] = "after" \/ Returned(p))
      => /\ status[p] \in WhileList(kind[p])
         /\ gets[p] < MaxGets => gets[p] = nonterm[p] + 1

\* Three non-terminal responses, then a terminal one: four GETs.
C2_Witness ==
  \E p \in Procs : Returned(p) /\ nonterm[p] = 3 /\ gets[p] = 4

\* The latest response of p's call carries the top-level status succeeded and
\* a result payload, and the call is over.
SucceededWithResult(p) ==
  /\ pc[p] = "done"
  /\ GotBody(p)
  /\ resp[p].body.status = "succeeded"
  /\ resp[p].body.result # Absent

\* C3 as stated: check_firefly_job_status and success_image_callback both
\* return a value equal to the body of the succeeded response.
C3_ReturnsBody_Original ==
  \A p \in Procs :
    (kind[p] \in {"firefly", "callback"} /\ SucceededWithResult(p))
      => outcome[p] = ReturnBody(resp[p].body)

\* C3 amended: on a succeeded response with a result payload,
\* success_image_callback returns the response body, and
\* check_firefly_job_status returns result.outputs[0].image.url of that body.
C3_ReturnsBodyOrUrl ==
  \A p \in Procs :
    /\ (kind[p] = "callback" /\ SucceededWithResult(p))
         => outcome[p] = ReturnBody(resp[p].body)
    /\ (kind[p] = "firefly" /\ SucceededWithResult(p))
         => outcome[p] = ReturnUrl(resp[p].body.result)

C3_Witness ==
  \E p \in Procs :
    /\ kind[p] = "firefly"
    /\ SucceededWithResult(p)
    /\ gets[p] >= 2
    /\ outcome[p].tag = "url"

\* C4: a poll that ended on the vendor status failed gave its caller a
\* JobFailed failure, raised or returned.
C4_FailedSurfacesJobFailed ==
  \A p \in Procs :
    (pc[p] = "done" /\ GotBody(p) /\ status[p] = "failed")
      => outcome[p].tag = "JobFailed"

C5_WitnessNotModified ==
  \E p \in Procs :
    /\ resp[p] = Response("3xx", Body("running", FALSE, <<>>, Absent))
    /\ status[p] = "running"
    /\ pc[p] \in {"test", "sleep"}

Nested(body) ==
  IF body.hasOutputs /\ Len(body.outputs) > 0 THEN body.outputs[1].status ELSE Absent

Reported(k, body) ==
  CASE k \in {"photoshop", "firefly"} -> body.status
    [] k = "lightroom" -> Nested(body)
    [] k = "callback" -> IF body.status # Absent THEN body.status ELSE Nested(body)
    [] OTHER -> Absent

\* The latest answer to p's status GET reports a terminal status.
ReportsTerminal(p) == GotBody(p) /\ Reported(kind[p], resp[p].body) \in VendorTerminal

\* C6: when from some point on every answer of the vendor reports succeeded,
\* failed or cancelled, the poll comes to an end.
C6_Terminates ==
  \A p \in Procs : (<>[]ReportsTerminal(p)) => <>(pc[p] = "done")

\* C7: when the endpoint gave the same terminal response to every status GET,
\* a second call of the poll ends with the outcome of the first.
C7_SameResultTwice ==
  \A p \in Procs :
    ( /\ calls[p] >= 2
      /\ pc[p] = "done"
      /\ same[p]
      /\ ParsedAnswer(first[p])
      /\ Reported(kind[p], first[p].body) \in VendorTerminal )
      => outcome[p] = prev[p]

\* The second call on a succeeded job has returned what the first returned.
C7_Witness ==
  \E p \in Procs :
    /\ calls[p] = 2
    /\ Returned(p)
    /\ same[p]
    /\ Reported(kind[p], first[p].body) = "succeeded"
    /\ outcome[p].tag \in {"body", "url"}
    /\ outcome[p] = prev[p]

\* The body has no top-level status and carries one in outputs[0].
NestedOnly(body) == body.status = Absent /\ Nested(body) # Absent

\* C8: from a response with no top-level status and a status in outputs[0],
\* check_lightroom_job_status and success_image_callback hold exactly that
\* nested status, and on succeeded the poll leaves its loop and returns.
C8_NestedExtraction ==
  \A p \in Procs :
    (kind[p] \in {"lightroom", "callback"} /\ GotBody(p) /\ NestedOnly(resp[p].body))
      => /\ status[p] = Nested(resp[p].body)
         /\ status[p] = "succeeded"
              => /\ pc[p] \in {"test", "after", "done"}
                 /\ outcome[p].kind \in {"pending", "returned"}
                 /\ pc[p] = "done" => Returned(p)

\* A Lightroom poll that returned on outputs[0].status = succeeded.
C8_Witness ==
  \E p \in Procs :
    /\ kind[p] = "lightroom"
    /\ Returned(p)
    /\ NestedOnly(resp[p].body)
    /\ status[p] = "succeeded"
    /\ gets[p] >= 2

\* The body carries no status where the poll of kind k looks for one.
StatusMissing(k, body) == Reported(k, body) = Absent

\* C9: after a response whose status is missing the poll does not go on to
\* another sleep or status GET, and it ends with an error raised to its caller.
C9_MalformedIsError ==
  \A p \in Procs :
    (kind[p] # "idle" /\ GotBody(p) /\ StatusMissing(kind[p], resp[p].body))
      => /\ pc[p] \notin {"sleep", "get"}
         /\ pc[p] = "done" => Raised(p)

\* What the poll of kind k gives its caller when the status it extracted from
\* body is s (Pending: it does not end there).
OutcomeOn(k, s, body) ==
  IF WhileCond(k, s) THEN Pending
  ELSE IF k = "callback" THEN CallbackReturn(body)
  ELSE AfterLoop(k, s, body)

\* C10: the outcome of a poll that ended on the status cancelled is none of
\* the outcomes that poll gives for the status failed.
C10_CancelledDiffersFromFailed ==
  \A p \in Procs :
    (pc[p] = "done" /\ GotBody(p) /\ status[p] = "cancelled")
      => \A b \in Bodies : outcome[p] # OutcomeOn(kind[p], "failed", b)

Counted(p) == gets[p] < MaxGets /\ fetch_count < MaxFetch

\* C12: the sleep of a success_image_callback poll is the one it takes when it
\* runs alone: after its k-th status GET, 2 ^ (fetch_count at its start + k),
\* whatever the polls running beside it do.
C12_SleepsAsIfAlone ==
  \A p \in Procs :
    (kind[p] = "callback" /\ pc[p] = "test" /\ sleeps[p] > 0 /\ Counted(p))
      => lastSleep[p] = 2 ^ (base[p] + gets[p])

\* C13: in success_image_callback the sleep after the k-th status GET of a
\* poll is 2 ^ k seconds, in every call of the poll.
C13_SleepIsTwoToTheAttempt ==
  \A p \in Procs :
    (kind[p] = "callback" /\ pc[p] = "test" /\ sleeps[p] > 0 /\ Counted(p))
      => lastSleep[p] = 2 ^ gets[p]

\* C14: after an iteration that ended without an exception the poll holds the
\* status that this iteration's response reports (None when it reports none),
\* never the value an earlier iteration or the placeholder left.
C14_StatusIsThisResponses ==
  \A p \in Procs :
    (kind[p] # "idle" /\ GotBody(p) /\ outcome[p].kind # "raised")
      => status[p] = IF Reported(kind[p], resp[p].body) = Absent
                     THEN NoneVal
                     ELSE Reported(kind[p], resp[p].body)

\* C15 as stated: in every poll loop each status GET, the first one included,
\* comes after a sleep of the same iteration, and no sleep follows a terminal
\* status (succeeded, failed or cancelled).
C15_SleepThenGet_Original ==
  [][\A p \in Procs :
       /\ (gets'[p] > gets[p] /\ calls'[p] = calls[p]) => sleeps[p] = gets[p] + 1
       /\ sleeps'[p] > sleeps[p] => status[p] \notin VendorTerminal]_vars

\* C15 amended: in the three loops of automate_workflow.py each status GET
\* comes after a sleep of the same iteration; in success_image_callback each
\* iteration issues its GET first and sleeps afterwards, so the first GET of a
\* poll has no sleep before it; in no loop does a sleep follow the status
\* succeeded or failed, and in check_firefly_job_status none follows cancelled
\* either.
C15_SleepOrder ==
  [][\A p \in Procs :
       /\ (gets'[p] > gets[p] /\ calls'[p] = calls[p])
            => sleeps[p] = IF kind[p] = "callback" THEN gets[p] ELSE gets[p] + 1
       /\ sleeps'[p] > sleeps[p]
            => /\ status[p] \notin {"succeeded", "failed"}
               /\ kind[p] = "firefly" => status[p] # "cancelled"]_vars

\* C15, the sleep the amended statement leaves room for: after cancelled the
\* other three loops sleep again.
C15_SleepAfterCancelled ==
  \E p \in Procs :
    /\ kind[p] \in {"photoshop", "lightroom", "callback"}
    /\ status[p] = "cancelled"
    /\ pc[p] # "done"
    /\ sleeps[p] = 2

\* A callback poll that returned after two GETs and the one sleep between them.
C15_Witness ==
  \E p \in Procs :
    /\ kind[p] = "callback"
    /\ Returned(p)
    /\ gets[p] = 2
    /\ sleeps[p] = 1

Placeholders == {"submitted", "pending", ""}

\* C17: a call enters its loop with a placeholder status that is no terminal
\* status (so not in the poll's while list either), and a poll has issued at least one status GET when it
\* leaves its loop or returns.
C17_AtLeastOneGet ==
  \A p \in Procs :
    /\ (pc[p] = "test" /\ gets[p] = 0)
         => status[p] \in Placeholders \ VendorTerminal
    /\ (pc[p] = "after" \/ Returned(p)) => gets[p] >= 1

\* A second call on a job that was already terminal: it returned after one GET.
C17_Witness ==
  \E p \in Procs :
    /\ calls[p] = 2
    /\ Returned(p)
    /\ gets[p] = 1
    /\ same[p]
    /\ Reported(kind[p], first[p].body) \in VendorTerminal

\* C16: the latest status GET of a call, so every status GET, carried
\* x-api-key with the client id and Authorization: Bearer <token> with the
\* access token the caller supplied.
C16_GetCarriesCredentials ==
  \A p \in Procs :
    gets[p] > 0
      => /\ token[p] \in Tokens
         /\ sent[p].x_api_key = ClientId
         /\ sent[p].authorization = <<"Bearer", token[p]>>

\* A poll in its third iteration, with the second of the two tokens.
C16_Witness ==
  \E p \in Procs :
    /\ gets[p] = 3
    /\ token[p] = "token-b"
    /\ sent[p].authorization = <<"Bearer", "token-b">>

\* C18 (as stated): a forwarding route, given a cookie, sends the upstream
\* request with the x-api-key and Authorization: Bearer <cookie token> headers
\* and, when the upstream answers with a JSON body B, responds with B unchanged.
C18_RelaysBody_Original ==
  (rpc = "done" /\ request.cookie \in Tokens
     /\ upAns.got = "response" /\ upAns.body \in JsonBodies)
    => /\ upReq.x_api_key = ClientId
       /\ upReq.authorization = <<"Bearer", request.cookie>>
       /\ reply.body = upAns.body

\* The routes that hand a JSON answer of status 400 or above to the client as
\* a 200: they have no raise_for_status().
RelaysErrorAnswers == {"expand_image_async", "generate_video_from_text", "crop_image"}

\* The i-th upstream answer of expand_image_for_all_sizes came with a JSON body.
ExJson(i) == exLog[i].answer.got = "response" /\ exLog[i].answer.body \in JsonBodies

\* C18 (amended): each endpoint that forwards a request, given a cookie, sends
\* its upstream request, or each of them, with the x-api-key and
\* Authorization: Bearer <cookie token> headers.  When the upstream answers
\* with a JSON body B and a status below 400, the endpoint responds 200 with B
\* unchanged, except upload_image, which responds with
\* {"filename": <file name>, "firefly_response": B}.  A JSON answer B of status
\* 400 or above is relayed as 200 with B by expand_image_async,
\* generate_video_from_text and crop_image only; any other upstream answer is
\* answered with status 500.  expand_image_for_all_sizes responds 200 with the
\* list of the JSON bodies of its ten upstream answers, whatever their status,
\* and 500 as soon as one of them is no JSON answer.
C18_RelaysBody ==
  /\ (rpc \in {"upstream", "done"} /\ request.cookie \in Tokens)
       => /\ upReq.x_api_key = ClientId
          /\ upReq.authorization = <<"Bearer", request.cookie>>
          /\ rpc = "done" =>
               IF upAns.got = "response" /\ upAns.status < 400
                  /\ upAns.body \in JsonBodies
               THEN /\ reply.status = 200
                    /\ reply.body =
                         IF request.route = "upload_image"
                         THEN <<"filename", request.filename, "firefly_response",
                                upAns.body[1]>>
                         ELSE upAns.body
               ELSE IF upAns.got = "response" /\ upAns.body \in JsonBodies
                       /\ request.route \in RelaysErrorAnswers
               THEN reply = Reply(200, upAns.body)
               ELSE reply.status = 500
  /\ (expc # "idle" /\ exCookie \in Tokens)
       => /\ \A i \in 1..Len(exLog) :
               /\ exLog[i].headers.x_api_key = ClientId
               /\ exLog[i].headers.authorization = <<"Bearer", exCookie>>
          /\ expc = "done" =>
               IF Len(exLog) = Len(supported_sizes)
                  /\ \A i \in 1..Len(exLog) : ExJson(i)
               THEN /\ exReply.status = 200
                    /\ exReply.body = [i \in 1..Len(exLog) |-> exLog[i].answer.body]
               ELSE /\ exReply.status = 500
                    /\ Len(exLog) > 0
                    /\ ~ExJson(Len(exLog))

\* An upload with the second token that the upstream answered 200 with B2.
C18_Witness ==
  /\ rpc = "done"
  /\ request.route = "upload_image"
  /\ request.cookie = "token-b"
  /\ upAns = Answer(200, <<"B2">>)
  /\ reply = Reply(200, <<"filename", "a.png", "firefly_response", "B2">>)

\* C18, third case: crop_image relays a 404 answer as a 200.
C18_WitnessCrop ==
  /\ rpc = "done"
  /\ request.route = "crop_image"
  /\ request.cookie = "token-a"
  /\ upAns = Answer(404, <<"B1">>)
  /\ reply = Reply(200, <<"B1">>)

\* C18, fourth case: an answer of status 304 is relayed by a route that calls
\* raise_for_status().
C18_WitnessNotModified ==
  /\ rpc = "done"
  /\ request.route = "generate_image"
  /\ upAns = Answer(304, <<"B2">>)
  /\ reply = Reply(200, <<"B2">>)

\* C18, fifth case: expand_image_for_all_sizes answered with its ten bodies.
C18_WitnessAllSizes ==
  /\ expc = "done"
  /\ exCookie = "token-b"
  /\ exReply.status = 200
  /\ Len(exReply.body) = 10
  /\ exReply.body[10] = <<"B2">>

\* C18, second case: a plain relay of B1 by check_image_status.
C18_WitnessRelay ==
  /\ rpc = "done"
  /\ request.route = "check_image_status"
  /\ upAns = Answer(200, <<"B1">>)
  /\ reply = Reply(200, <<"B1">>)

\* C19: a request without the access_token cookie is answered 401 and no
\* upstream request is issued for it, on every route that checks the cookie.
C19_MissingCookieIs401 ==
  (rpc = "done" /\ request.cookie = NoneVal /\ request.route # "crop_image")
    => reply.status = 401 /\ upCount = 0 /\ upReq = NoUpHeaders

\* C19, the part that holds: without the cookie no upstream request is issued,
\* and the routes that check the cookie before their try answer 401 with the
\* detail 'Access token is missing or expired.'.
C19_NoUpstreamWithoutCookie ==
  (rpc = "done" /\ request.cookie = NoneVal /\ request.route # "crop_image")
    => /\ upCount = 0
       /\ request.route \notin {"reframe_video", "auto_tone",
                                "get_lightroom_status"}
            => reply = Reply(401, <<"detail",
                                    "Access token is missing or expired.">>)

\* C20: main() submits the auto-tone job only after a succeeded
\* object-composite job, with the image URL that job returned as its input
\* href; it never submits it with None as the href.
C20_AutoToneOnlyAfterSuccess ==
  \A i \in 1..Len(submits) :
    submits[i].api = "auto_tone"
      => submits[i].href # NoneVal /\ submits[i].href = ImageUrl

\* C20, the part that holds: the auto-tone job follows the object-composite
\* poll's return, and its href is that poll's return value.
C20_HrefIsPollReturn ==
  \A i \in 1..Len(submits) :
    submits[i].api = "auto_tone"
      => /\ i = 3
         /\ submits[2].api = "generate_object_composite"
         /\ submits[i].href = wfOut
         /\ wfOut \in {ImageUrl, NoneVal}

\* The order of main()'s three submissions.
StepOrder == <<"remove_background", "generate_object_composite", "auto_tone">>

\* C21: main()'s submissions follow the order remove-background,
\* object-composite, auto-tone; each submission after the first is made only
\* when the submission before it raised nothing (it was answered with a status
\* below 400 and the job's id) and the poll of that job returned after
\* observing a terminal status; so after a transport error in a submit or a
\* poll nothing more is submitted.
C21_StepsInOrder ==
  [][Len(submits') > Len(submits)
       => /\ Len(submits') = Len(submits) + 1
          /\ Len(submits') <= 3
          /\ submits'[Len(submits')].api = StepOrder[Len(submits')]
          /\ Len(submits) > 0
               => /\ SubmitError(submits[Len(submits)]) = ""
                  /\ kind[1] = KindOf(PollStepOf(submits[Len(submits)].api))
                  /\ outcome[1].kind = "returned"
                  /\ gets[1] > 0
                  /\ status[1] \in WhileList(kind[1])]_vars

\* C21, as a state property: a workflow that was stopped by an error never
\* holds a submission after the failed one.
C21_NothingAfterError ==
  \A i \in 1..Len(submits) :
    /\ submits[i].api = StepOrder[i]
    /\ i < Len(submits) => SubmitError(submits[i]) = ""

\* main() ran to its end: three jobs submitted in order.
C21_Witness ==
  /\ wfStep = "finished"
  /\ Len(submits) = 3
  /\ submits[3].api = "auto_tone"

\* main() was stopped by a transport error of the object-composite poll.
C21_WitnessAbort ==
  /\ wfStep = "aborted"
  /\ Len(submits) = 2
  /\ SubmitError(submits[2]) = ""
  /\ outcome[1] = TransportFailure

\* C22: when the upstream storage request of upload_image is answered with a
\* non-OK status s, the route answers its client with s; its other failures
\* are answered with 500.
C22_UploadRelaysStatus ==
  (rpc = "done" /\ request.route = "upload_image" /\ request.cookie \in Tokens)
    => /\ (upAns.got = "response" /\ upAns.status >= 400)
            => reply.status = upAns.status
       /\ (upAns.got = "error"
             \/ (upAns.got = "response" /\ upAns.status < 400
                   /\ upAns.body = NotJson))
            => reply.status = 500

\* C22, what the route does: every failure of the upload, a non-OK upstream
\* status included, is answered with 500.
C22_UploadFailuresAre500 ==
  (rpc = "done" /\ request.route = "upload_image" /\ request.cookie \in Tokens
     /\ ~(upAns.got = "response" /\ upAns.status < 400
            /\ upAns.body \in JsonBodies))
    => reply.status = 500

\* C23: when the object listing fails inside read_s3_contents, the two S3
\* routes answer 500 'Failed to read S3 contents.', never 200 with an empty
\* list.
C23_FailedListingIs500 ==
  (s3pc = "done" /\ s3Listing.raises)
    => /\ s3Reply.status = 500
       /\ s3Reply.detail = "Failed to read S3 contents."
       /\ s3Reply # S3Reply(200, <<>>, "")

\* C23, what the routes do: a failed listing is answered exactly as an empty
\* one, with 200 and an empty list.
C23_FailedListingIsEmptyList ==
  (s3pc = "done" /\ (s3Listing.raises \/ ~s3Listing.hasContents))
    => s3Reply.status = 200 /\ s3Reply.body = <<>>

\* An upstream answer that makes a submission raise: a failed request, or no
\* JSON.
NoJsonAnswer(a) ==
  a.got = "error" \/ (a.got = "response" /\ a.body \notin JsonBodies)

\* C24: with a cookie, expand_image_for_all_sizes sends one upstream request per
\* entry of supported_sizes, in list order; when it answers 200 it has sent all
\* of them and its list holds, at each place i, the upstream response for the
\* i-th size; a submission that raises is the last one sent and the route
\* fails.
C24_OnePerSizeInOrder ==
  (expc # "idle" /\ exCookie \in Tokens)
    => /\ Len(exLog) <= Len(supported_sizes)
       /\ \A i \in 1..Len(exLog) :
            /\ exLog[i].size = supported_sizes[i]
            /\ exLog[i].answer = NoAnswer <=> (i = Len(exLog) /\ expc = "wait")
            /\ NoJsonAnswer(exLog[i].answer)
                 => i = Len(exLog) /\ expc = "done" /\ exReply.status = 500
       /\ (expc = "done" /\ exReply.status = 200)
            => /\ Len(exLog) = Len(supported_sizes)
               /\ Len(exReply.body) = Len(supported_sizes)
               /\ \A i \in 1..Len(supported_sizes) :
                    exReply.body[i] = exLog[i].answer.body
       /\ expc = "done"
            => \/ exReply.status = 200
               \/ /\ exReply.status = 500
                  /\ Len(exLog) > 0
                  /\ NoJsonAnswer(exLog[Len(exLog)].answer)

\* All ten sizes were submitted and answered with differing bodies, and the
\* route answered 200.
C24_Witness ==
  /\ expc = "done"
  /\ exReply.status = 200
  /\ Len(exReply.body) = 10
  /\ exReply.body[1] = <<"B1">>
  /\ exReply.body[2] = <<"B2">>
  /\ exLog[10].size = <<1024, 1024>>

\* The third submission raised: the route failed after three requests.
C24_WitnessRaise ==
  /\ expc = "done"
  /\ exReply.status = 500
  /\ Len(exLog) = 3

\* C25: with complete-image-callback requests served one at a time,
\* fetch_count equals the number of status GETs success_image_callback has
\* issued since the process started (up to the counted maximum): after the
\* k-th GET of a call it is the count at the call's start plus k, so it is
\* advanced once per GET and is not reset between calls.
C25_CountsEveryGet ==
  /\ fetch_count = totalGets
  /\ \A p \in Procs :
       (kind[p] = "callback" /\ Counted(p)) => fetch_count = base[p] + gets[p]
  /\ \A p \in Procs :
       (kind[p] = "callback" /\ calls[p] <= 1 /\ Counted(p))
         => fetch_count = gets[p]

\* C25, as a step property: fetch_count never decreases, and it changes only
\* in a step in which success_image_callback issues a status GET.
C25_NeverDecreases ==
  [][/\ fetch_count' >= fetch_count
     /\ fetch_count' # fetch_count
          => \E p \in Procs :
               /\ kind[p] = "callback"
               /\ pc[p] = "get"
               /\ pc'[p] = "wait"
               /\ gets'[p] >= gets[p]
               /\ fetch_count' = fetch_count + 1]_vars

\* The second request in a row: two GETs in the first (the second of them
\* answered non-2xx), one so far in this one, and the counter at three.
C25_Witness ==
  \E p \in Procs :
    /\ kind[p] = "callback"
    /\ calls[p] = 2
    /\ prev[p] = TransportFailure
    /\ base[p] = 2
    /\ gets[p] = 1
    /\ fetch_count = 3

\* C26: when crop_image gets no cookie and retrieves a new token, its upstream
\* productCrop request carries Authorization: Bearer <t>, t being the
\* access-token string of the new token.
C26_CropSendsNewToken ==
  (request.route = "crop_image" /\ request.cookie = NoneVal
     /\ rpc \in {"upstream", "done"} /\ upCount = 1)
    => /\ cropToken.access_token \in Tokens
       /\ upReq.authorization = <<"Bearer", cropToken.access_token>>

\* C26, the case that works: with a cookie the request carries
\* Bearer <cookie token>; and without one it is still sent exactly once, after
\* a token was retrieved.
C26_CropWithCookie ==
  (request.route = "crop_image" /\ rpc \in {"upstream", "done"})
    => /\ request.cookie \in Tokens
            => /\ upCount = 1
               /\ upReq.authorization = <<"Bearer", request.cookie>>
       /\ (request.cookie = NoneVal /\ upCount = 1)
            => cropToken.py = "dict" /\ cropToken.access_token \in Tokens

\* Two success_image_callback requests at once: the second sleeps 2^2 seconds
\* after its first GET while the first still waits for its first answer.
ConcScenarioB ==
  /\ kind[1] = "callback"
  /\ pc[1] = "wait"
  /\ resp[1] = NoResponse
  /\ gets[2] = 1
  /\ lastSleep[2] = 4
  /\ fetch_count = 2

=============================================================================
